---- MODULE Spec2Model ----
(***************************************************************************)
(* DeepDream (src/deepdream.py): the command-line dispatch, the four mode  *)
(* functions and the pyramid / gradient-ascent loop of                     *)
(* deep_dream_static_image, as a state machine.                            *)
(*                                                                         *)
(* Numbers.  float32 values are fixed-point integers, FP units to 1.0,     *)
(* plus the value NaN.  A [0, 1] image value is 0 .. FP.  Image sizes are  *)
(* scaled down (720 x 1280 becomes 2 x 3, 320 x 320 becomes 2 x 2) so that  *)
(* every pixel can be followed.                                            *)
(*                                                                         *)
(* An image is a record [h, w, px]: px is the row-major sequence of its    *)
(* h * w values.  A tensor adds `at`: at[i] is the index the value now at  *)
(* i had when the tensor was made (the identity until it is rolled).       *)
(***************************************************************************)
EXTENDS Integers, Sequences, FiniteSets, TLC

\* ---------------------------------------------------------------- bounds
MaxPyramid == 2
MaxIters == 2
MaxShift == 1
MaxNoiseFrames == 2
MaxOuroboros == 2
MaxVideoFrames == 1

\* Runs of the program, one after the other, on the same output directories.
MaxRuns == 2

\* ----------------------------------------------------------- float32 model
FP == 4
PREC == 8
NaN == -1000

IsNaN(x) == x = NaN

\* Division of integers truncating toward zero (the model's rounding of a quotient).
TruncDiv(a, b) == IF a >= 0 THEN a \div b ELSE -((-a) \div b)

FAdd(a, b) == IF IsNaN(a) \/ IsNaN(b) THEN NaN ELSE a + b

\* torch.min / torch.max of two tensors, elementwise: a NaN operand is returned.
TorchMin(a, b) == IF IsNaN(a) \/ IsNaN(b) THEN NaN ELSE IF a < b THEN a ELSE b

TorchMax(a, b) == IF IsNaN(a) \/ IsNaN(b) THEN NaN ELSE IF a > b THEN a ELSE b

\* The integer square root of x >= 0, by bisection of lo .. hi (lo^2 <= x < hi^2).
RECURSIVE SqrtBetween(_, _, _)
SqrtBetween(x, lo, hi) ==
    IF hi - lo <= 1 THEN lo
    ELSE LET mid == (lo + hi) \div 2
         IN  IF mid * mid <= x THEN SqrtBetween(x, mid, hi) ELSE SqrtBetween(x, lo, mid)

RECURSIVE SqrtUpper(_, _)
SqrtUpper(x, hi) == IF hi * hi > x THEN hi ELSE SqrtUpper(x, 2 * hi)

ISqrt(x) == SqrtBetween(x, 0, SqrtUpper(x, 1))

RECURSIVE SumUpTo(_, _)
SumUpTo(s, n) == IF n = 0 THEN 0 ELSE s[n] + SumUpTo(s, n - 1)

SumSeq(s) == SumUpTo(s, Len(s))

RECURSIVE Pow(_, _)
Pow(b, e) == IF e = 0 THEN 1 ELSE b * Pow(b, e - 1)

\* np.round of the quotient a / b (a >= 0, b > 0): to nearest, halves to even.
RoundDiv(a, b) ==
    LET q == a \div b
        r == a % b
    IN  IF 2 * r < b THEN q
        ELSE IF 2 * r > b THEN q + 1
        ELSE IF q % 2 = 0 THEN q ELSE q + 1

\* ------------------------------------------------------------------ images
NoneImg == [h |-> 0, w |-> 0, px |-> << >>]

IsNone(img) == img.h = 0

Row(w, i) == ((i - 1) \div w) + 1

Col(w, i) == ((i - 1) % w) + 1

Idx(w, r, c) == (r - 1) * w + c

Shape(img) == <<img.h, img.w>>

Identity(n) == [i \in 1..n |-> i]

AnyNaN(s) == \E i \in 1..Len(s) : IsNaN(s[i])

\* cv.resize(img, (w, h)): an h x w image sampled from img (nearest source pixel).
cv_resize(img, h, w) ==
    [h |-> h, w |-> w,
     px |-> [i \in 1..(h * w) |->
               img.px[Idx(img.w, (((Row(w, i) - 1) * img.h) \div h) + 1,
                                 (((Col(w, i) - 1) * img.w) \div w) + 1)]]]

\* crop: rows 1..h and columns 1..w of img, from offset (top, left).
Crop(img, top, left, h, w) ==
    [h |-> h, w |-> w,
     px |-> [i \in 1..(h * w) |-> img.px[Idx(img.w, top + Row(w, i), left + Col(w, i))]]]

\* ------------------------------------------------ utils.constants (not in src/)
\* The models the command line offers: the class of each and its layer names.
SupportedModels ==
    [VGG16_EXPERIMENTAL |->
        [name |-> "VGG16_EXPERIMENTAL", cls |-> "Vgg16Experimental",
         layer_names |-> <<"relu3_3", "relu4_1">>],
     OPENCLIP_CONVNEXT_LARGE_D_320 |->
        [name |-> "OPENCLIP_CONVNEXT_LARGE_D_320", cls |-> "OpenCLIPConvNext",
         layer_names |-> <<"logits_per_image">>]]

ModelNames == {"VGG16_EXPERIMENTAL", "OPENCLIP_CONVNEXT_LARGE_D_320"}

NoneDims == [kind |-> "none", val |-> << >>]

TupleDims(s) == [kind |-> "tuple", val |-> s]

\* FixedImageResolutions: model name -> the only input size the model takes.
FixedImageResolutions == [OPENCLIP_CONVNEXT_LARGE_D_320 |-> TupleDims(<<2, 2>>)]

FixedImageResolutionClasses == {"OpenCLIPConvNext"}

SUPPORTED_IMAGE_FORMATS == {"jpg", "png"}

SUPPORTED_VIDEO_FORMATS == {"mp4"}

\* ConstantsContext: the normalisation statistics in force (use_clip / use_imagenet).
MEAN(ctx) == IF ctx = "clip" THEN 2 ELSE 1

LOWER_IMAGE_BOUND(ctx) == 0 - MEAN(ctx)

UPPER_IMAGE_BOUND(ctx) == FP - MEAN(ctx)

\* ---------------------------------------------------- utils.utils (not in src/)
\* pre_process_numpy_img: normalise a [0, 1] image with the context's statistics.
pre_process_numpy_img(img, ctx) ==
    [img EXCEPT !.px = [i \in 1..Len(img.px) |-> FAdd(img.px[i], 0 - MEAN(ctx))]]

\* post_process_numpy_img: undo the normalisation and clip to [0, 1].
post_process_numpy_img(img, ctx) ==
    [img EXCEPT !.px = [i \in 1..Len(img.px) |->
        LET v == FAdd(img.px[i], MEAN(ctx))
        IN  IF IsNaN(v) THEN NaN ELSE IF v < 0 THEN 0 ELSE IF v > FP THEN FP ELSE v]]

\* get_new_shape: the base shape scaled by pyramid_ratio ^ (level - pyramid_size + 1).
get_new_shape(cfg, base_shape, pyramid_level) ==
    LET k == cfg.pyramid_size - 1 - pyramid_level
        num == Pow(cfg.pyramid_ratio[2], k)
        den == Pow(cfg.pyramid_ratio[1], k)
    IN  <<RoundDiv(base_shape[1] * num, den), RoundDiv(base_shape[2] * num, den)>>

\* pad_image_to_shape: img in the top-left corner of a zero image of the given shape.
pad_image_to_shape(img, shape) ==
    [h |-> shape[1], w |-> shape[2],
     px |-> [i \in 1..(shape[1] * shape[2]) |->
               IF Row(shape[2], i) <= img.h /\ Col(shape[2], i) <= img.w
               THEN img.px[Idx(img.w, Row(shape[2], i), Col(shape[2], i))]
               ELSE 0]]

\* extract_original_from_padded: the top-left part of the given shape.
extract_original_from_padded(img, shape) == Crop(img, 0, 0, shape[1], shape[2])

\* pytorch_input_adapter: the image as a tensor; no value has moved yet.
pytorch_input_adapter(img) ==
    [h |-> img.h, w |-> img.w, px |-> img.px, at |-> Identity(img.h * img.w)]

\* pytorch_output_adapter: the tensor's values as an image again.
pytorch_output_adapter(t) == [h |-> t.h, w |-> t.w, px |-> t.px]

\* random_circular_spatial_shift: torch.roll by (h_shift, w_shift) over height and
\* width, by the negated shifts when should_undo.
random_circular_spatial_shift(t, h_shift, w_shift, should_undo) ==
    LET dh == IF should_undo THEN 0 - h_shift ELSE h_shift
        dw == IF should_undo THEN 0 - w_shift ELSE w_shift
        from(i) == Idx(t.w, ((Row(t.w, i) - 1 - dh) % t.h) + 1,
                            ((Col(t.w, i) - 1 - dw) % t.w) + 1)
    IN  [t EXCEPT !.px = [i \in 1..Len(t.px) |-> t.px[from(i)]],
                  !.at = [i \in 1..Len(t.at) |-> t.at[from(i)]]]

\* linear_blend(img1, img2, alpha) = img1 + alpha * (img2 - img1).
linear_blend(img1, img2, alpha) ==
    [img2 EXCEPT !.px = [i \in 1..Len(img2.px) |->
        IF IsNaN(img1.px[i]) \/ IsNaN(img2.px[i]) THEN NaN
        ELSE img1.px[i] + TruncDiv(alpha[1] * (img2.px[i] - img1.px[i]), alpha[2])]]

\* CascadeGaussianSmoothing: a normalised blur, flatter for a larger sigma
\* (sigma = <<numerator, denominator>>).  The result is the blur times the sum of
\* the kernel's weights; the normalisation that follows cancels that factor.
KernelCentre(sigma) == 1 + ((2 * sigma[2]) \div sigma[1])

Clamp(x, lo, hi) == IF x < lo THEN lo ELSE IF x > hi THEN hi ELSE x

CascadeGaussianSmoothing(g, h, w, sigma) ==
    LET k == KernelCentre(sigma)
        tap(r, c) == g[Idx(w, Clamp(r, 1, h), Clamp(c, 1, w))]
        rowsum(r, c) == tap(r, c - 1) + k * tap(r, c) + tap(r, c + 1)
    IN  IF AnyNaN(g) THEN [i \in 1..Len(g) |-> NaN]
        ELSE [i \in 1..Len(g) |->
                rowsum(Row(w, i) - 1, Col(w, i)) + k * rowsum(Row(w, i), Col(w, i))
                    + rowsum(Row(w, i) + 1, Col(w, i))]

\* ---------------------------------------- the network (torch, pretrained weights)
\* input_tensor.grad after loss.backward(): the gradient of the mean activation
\* loss with respect to the input, a function of the network and of the input.
\* net = "dead": every selected activation is 0 and so is the gradient;
\* net = "live": the activations follow the input, value by value, and so does the
\* gradient of their mean square.
InputGradient(net, t) ==
    IF net = "dead" THEN [i \in 1..Len(t.px) |-> 0]
    ELSE IF AnyNaN(t.px) THEN [i \in 1..Len(t.px) |-> NaN]
    ELSE [i \in 1..Len(t.px) |-> t.px[i]]

\* --------------------------------------------------------- gradient_ascent
\* sigma = ((iteration + 1) / num_gradient_ascent_iterations) * 2.0 + smoothing_coefficient
Sigma(cfg, iteration) ==
    LET n == cfg.num_gradient_ascent_iterations
        cn == cfg.smoothing_coefficient[1]
        cd == cfg.smoothing_coefficient[2]
    IN  <<2 * (iteration + 1) * cd + cn * n, n * cd>>

\* (smooth_grad - mean) / std, std being torch.std (the unbiased estimate).  With
\* n values of sum S, d[i] = n * g[i] - S is n times the centred value and
\* sqrt(sum d^2 / (n - 1)) is n times std, so the quotient is d[i] over that root.
\* A single value has std NaN; equal values have std 0 and give 0 / 0 = NaN.
NormalizeGradient(g) ==
    LET n == Len(g)
        S == SumSeq(g)
        d == [i \in 1..n |-> n * g[i] - S]
        D == SumSeq([i \in 1..n |-> d[i] * d[i]])
    IN  IF AnyNaN(g) \/ n = 1 \/ D = 0 THEN [i \in 1..n |-> NaN]
        ELSE LET q == ISqrt((D * PREC * PREC) \div (n - 1))
             IN  [i \in 1..n |-> TruncDiv(d[i] * PREC * FP, q)]

\* input_tensor.data += config['lr'] * smooth_grad
AscentStep(v, lr, g) ==
    IF IsNaN(v) \/ IsNaN(g) THEN NaN ELSE v + TruncDiv(lr[1] * g, lr[2])

\* torch.max(torch.min(input_tensor, UPPER_IMAGE_BOUND), LOWER_IMAGE_BOUND)
ClampToBounds(v, ctx) ==
    TorchMax(TorchMin(v, UPPER_IMAGE_BOUND(ctx)), LOWER_IMAGE_BOUND(ctx))

gradient_ascent(cfg, net, t, iteration, ctx) ==
    LET grad == InputGradient(net, t)
        smooth_grad == NormalizeGradient(
                           CascadeGaussianSmoothing(grad, t.h, t.w, Sigma(cfg, iteration)))
    IN  [t EXCEPT !.px = [i \in 1..Len(t.px) |->
                            ClampToBounds(AscentStep(t.px[i], cfg.lr, smooth_grad[i]), ctx)]]

\* ------------------------------------------------------------------- state
VARIABLES
    pc,                 \* where the program is
    exc,                \* the exception that ended the run, or "none"
    config,             \* the config dictionary
    ctx,                \* ConstantsContext: "unset", "clip" or "imagenet"
    net,                \* how the pretrained network's gradient behaves
    dispatched,         \* the mode functions __main__ has entered, in order
    frame,              \* the mode function's frame
    last_img,           \* the mode function's last_img
    dreamed_frame,      \* the mode function's dreamed_frame
    frame_id,           \* the mode function's loop index
    tmp_input,          \* the frames in tmp_input, in sorted name order: for each
                        \* the run that extracted it
    model,              \* deep_dream_static_image: the model parameter
    img,                \* deep_dream_static_image: img
    base_shape,         \* deep_dream_static_image: base_shape
    pyramid_level,      \* deep_dream_static_image: pyramid_level
    new_shape,          \* deep_dream_static_image: new_shape
    input_tensor,       \* deep_dream_static_image: input_tensor
    iteration,          \* deep_dream_static_image: iteration
    shift,              \* <<h_shift, w_shift>> while the tensor is shifted
    layer_ids_to_use,   \* deep_dream_static_image: layer_ids_to_use
    result,             \* what the last call of deep_dream_static_image returned
    ret,                \* where deep_dream_static_image returns to
    ga_steps,           \* calls of gradient_ascent in the current call
    level_log,          \* per pyramid level of the current call: its shapes
    level_out,          \* the dreamed output of the last finished level
    handed,             \* the img argument of the last call of deep_dream_static_image
    saved,              \* the image files written by save_and_maybe_display_image
    videos,             \* the videos written, each with the list of its frames
    run,                \* the number of this run of the program
    dirs                \* the temporary directories that exist

mainVars == <<exc, config, ctx, net, dispatched>>

modeVars == <<frame, last_img, dreamed_frame, frame_id, tmp_input>>

dreamVars == <<model, img, base_shape, pyramid_level, new_shape, input_tensor,
               iteration, shift, layer_ids_to_use, result, ret>>

logVars == <<ga_steps, level_log, level_out, handed>>

fileVars == <<saved, videos>>

diskVars == <<run, dirs>>

vars == <<pc, mainVars, modeVars, dreamVars, logVars, fileVars, diskVars>>

NoTensor == [h |-> 0, w |-> 0, px |-> << >>, at |-> << >>]

\* ------------------------------------------------------------ the file system
\* The image the input file holds (utils.load_image reads it).
InputFileImage == [h |-> 2, w |-> 3, px |-> <<0, 1, 2, 3, 4, 2>>]

\* np.random.uniform / np.random.rand: the images a draw of that shape may give.
NoiseImages(h, w) ==
    { [h |-> h, w |-> w, px |-> [i \in 1..(h * w) |-> (3 * i) % (FP + 1)]],
      [h |-> h, w |-> w, px |-> [i \in 1..(h * w) |-> (i + 2) % (FP + 1)]] }

\* utils.load_image(path, target_shape): the stored image, resized to target_shape
\* (None: as stored; an int: that height, the width in proportion; else (h, w)).
load_image(stored, target_shape) ==
    IF target_shape.kind = "none" THEN stored
    ELSE IF target_shape.kind = "int"
         THEN cv_resize(stored, target_shape.val[1],
                        (stored.w * target_shape.val[1]) \div stored.h)
         ELSE cv_resize(stored, target_shape.val[1], target_shape.val[2])

\* ------------------------------------------------- deep_dream_static_image
\* model.layer_names.index(layer_name): the position of the name, 0 when absent
\* (where list.index raises ValueError).
IndexOf(names, name) ==
    IF \E i \in 1..Len(names) : names[i] = name
    THEN CHOOSE i \in 1..Len(names) : names[i] = name /\ \A j \in 1..(i - 1) : names[j] # name
    ELSE 0

\* The early return taken only when no name at all is known.
LayersKnown_Any(mdl, cfg) ==
    \E k \in 1..Len(cfg.layers_to_use) : IndexOf(mdl.layer_names, cfg.layers_to_use[k]) # 0

\* Lines 73-78: the layer ids, or the early return when a name is unknown.
LayersKnown(mdl, cfg) ==
    \A k \in 1..Len(cfg.layers_to_use) : IndexOf(mdl.layer_names, cfg.layers_to_use[k]) # 0

DD_Layers ==
    /\ pc = "dd_layers"
    /\ IF LayersKnown(model, config)
       THEN /\ layer_ids_to_use' = [k \in 1..Len(config.layers_to_use) |->
                                      IndexOf(model.layer_names, config.layers_to_use[k]) - 1]
            /\ pc' = "dd_load"
            /\ UNCHANGED result
       ELSE /\ result' = NoneImg
            /\ pc' = ret
            /\ UNCHANGED layer_ids_to_use
    /\ UNCHANGED <<mainVars, modeVars, logVars, fileVars, diskVars, model, img, base_shape,
                   pyramid_level, new_shape, input_tensor, iteration, shift, ret>>

\* Lines 80-91: load the image when none was given, pre-process, keep the base shape.
DD_Load ==
    /\ pc = "dd_load"
    /\ \E loaded \in (IF ~IsNone(img) THEN {img}
                      ELSE LET file == load_image(InputFileImage, config.img_dimensions)
                           IN  IF config.use_noise THEN NoiseImages(file.h, file.w)
                               ELSE {file}) :
          /\ img' = pre_process_numpy_img(loaded, ctx)
          /\ base_shape' = Shape(loaded)
    /\ pyramid_level' = 0
    /\ pc' = "dd_level"
    /\ UNCHANGED <<mainVars, modeVars, logVars, fileVars,
                   diskVars, model, new_shape, input_tensor,
                   iteration, shift, layer_ids_to_use, result, ret>>

\* The pyramid walked from its bottom to its top: the largest level first.
LevelShape_Reversed(cfg, base, level) ==
    get_new_shape(cfg, base, cfg.pyramid_size - 1 - level)

\* Line 96: the shape of a pyramid level.
LevelShape(cfg, base, level) == get_new_shape(cfg, base, level)

\* Lines 95-102: enter a pyramid level: resize, pad for a fixed-resolution model,
\* make the tensor.
DD_Level ==
    /\ pc = "dd_level"
    /\ pyramid_level < config.pyramid_size
    /\ LET shape == LevelShape(config, base_shape, pyramid_level)
           resized == cv_resize(img, shape[1], shape[2])
           padded == IF model.cls \in FixedImageResolutionClasses
                     THEN pad_image_to_shape(resized, base_shape)
                     ELSE resized
       IN  /\ new_shape' = shape
           /\ img' = padded
           /\ input_tensor' = pytorch_input_adapter(padded)
           /\ level_log' = Append(level_log,
                                  [level |-> pyramid_level, shape |-> shape,
                                   tensor_shape |-> Shape(padded)])
    /\ iteration' = 0
    /\ pc' = "dd_iter"
    /\ UNCHANGED <<mainVars, modeVars, fileVars,
                   diskVars, model, base_shape, pyramid_level, shift,
                   layer_ids_to_use, result, ret, ga_steps, level_out, handed>>

\* Line 105: np.random.randint(-spatial_shift_size, spatial_shift_size + 1, 2).
ShiftRange(cfg) == (0 - cfg.spatial_shift_size)..cfg.spatial_shift_size

\* Lines 104-106: draw the jitter and roll the tensor by it.
DD_Shift ==
    /\ pc = "dd_iter"
    /\ iteration < config.num_gradient_ascent_iterations
    /\ \E h_shift \in ShiftRange(config), w_shift \in ShiftRange(config) :
          /\ shift' = <<h_shift, w_shift>>
          /\ input_tensor' = random_circular_spatial_shift(input_tensor, h_shift, w_shift, FALSE)
    /\ pc' = "dd_ga"
    /\ UNCHANGED <<mainVars, modeVars, logVars, fileVars, diskVars, model, img, base_shape,
                   pyramid_level, new_shape, iteration, layer_ids_to_use, result, ret>>

\* Line 108: one gradient-ascent step on the shifted tensor.
DD_GradientAscent ==
    /\ pc = "dd_ga"
    /\ input_tensor' = gradient_ascent(config, net, input_tensor, iteration, ctx)
    /\ ga_steps' = ga_steps + 1
    /\ pc' = "dd_undo"
    /\ UNCHANGED <<mainVars, modeVars, fileVars,
                   diskVars, model, img, base_shape, pyramid_level,
                   new_shape, iteration, shift, layer_ids_to_use, result, ret,
                   level_log, level_out, handed>>

\* The second roll without should_undo: the jitter is applied twice.
UndoShift_NotUndone(t, h_shift, w_shift) ==
    random_circular_spatial_shift(t, h_shift, w_shift, FALSE)

\* Line 110: the roll that takes the jitter back.
UndoShift(t, h_shift, w_shift) == random_circular_spatial_shift(t, h_shift, w_shift, TRUE)

\* Line 110 and the loop's step.  h_shift and w_shift are dead once the roll is
\* undone (the next iteration draws them again): shift is cleared.
DD_Undo ==
    /\ pc = "dd_undo"
    /\ input_tensor' = UndoShift(input_tensor, shift[1], shift[2])
    /\ shift' = <<0, 0>>
    /\ iteration' = iteration + 1
    /\ pc' = "dd_iter"
    /\ UNCHANGED <<mainVars, modeVars, logVars, fileVars, diskVars, model, img, base_shape,
                   pyramid_level, new_shape, layer_ids_to_use, result, ret>>

\* Lines 112-116: leave the level: back to an image, unpadded for a fixed-resolution
\* model.
DD_LevelEnd ==
    /\ pc = "dd_iter"
    /\ iteration = config.num_gradient_ascent_iterations
    /\ LET out == pytorch_output_adapter(input_tensor)
           unpadded == IF model.cls \in FixedImageResolutionClasses
                       THEN extract_original_from_padded(out, new_shape)
                       ELSE out
       IN  /\ img' = unpadded
           /\ level_out' = unpadded
    /\ pyramid_level' = pyramid_level + 1
    /\ pc' = "dd_level"
    /\ UNCHANGED <<mainVars, modeVars, fileVars,
                   diskVars, model, base_shape, new_shape, input_tensor,
                   iteration, shift, layer_ids_to_use, result, ret, ga_steps, level_log,
                   handed>>

\* Line 118: the loop over the levels is over: return the post-processed image.
DD_Finish ==
    /\ pc = "dd_level"
    /\ pyramid_level = config.pyramid_size
    /\ result' = post_process_numpy_img(img, ctx)
    /\ pc' = ret
    /\ UNCHANGED <<mainVars, modeVars, logVars, fileVars, diskVars, model, img, base_shape,
                   pyramid_level, new_shape, input_tensor, iteration, shift,
                   layer_ids_to_use, ret>>

DreamNext ==
    \/ DD_Layers
    \/ DD_Load
    \/ DD_Level
    \/ DD_Shift
    \/ DD_GradientAscent
    \/ DD_Undo
    \/ DD_LevelEnd
    \/ DD_Finish

\* ------------------------------------------------------------------ __main__
CLIP_WEIGHTS == "CLIP_LAION2B_S29B_B131K_FT"

IMAGENET_WEIGHTS == "IMAGENET"

\* Lines 410-414: one number becomes an int, two a tuple, anything else is kept.
ParsedDimensions(dims) ==
    IF dims.kind = "list" /\ Len(dims.val) = 1 THEN [kind |-> "int", val |-> dims.val]
    ELSE IF dims.kind = "list" /\ Len(dims.val) = 2 THEN TupleDims(dims.val)
    ELSE dims

\* Lines 422-429: a model with a fixed input resolution gets that resolution.
CorrectedDimensions(cfg, dims) ==
    IF cfg.model_name \in DOMAIN FixedImageResolutions
    THEN LET fixed == FixedImageResolutions[cfg.model_name]
             given == IF dims.kind = "none" THEN fixed ELSE dims
         IN  IF given # fixed THEN fixed ELSE given
    ELSE dims

\* Lines 407-429: the derived entries of config and the constants context.
Configure ==
    /\ pc = "configure"
    /\ config' = [config EXCEPT
          !.dump_dir = IF config.create_ouroboros THEN "out-videos/model" ELSE "out-images/model",
          !.img_dimensions = CorrectedDimensions(config, ParsedDimensions(config.img_dimensions))]
    /\ ctx' = IF config.pretrained_weights = CLIP_WEIGHTS THEN "clip" ELSE "imagenet"
    /\ pc' = "dispatch"
    /\ UNCHANGED <<exc, net, dispatched, modeVars, dreamVars, logVars, fileVars, diskVars>>

\* The chain with `if` in place of the first `elif`: from-noise no longer excludes
\* the other branches.
ModesEntered_IfForElif(cfg) ==
    (IF cfg.create_from_noise = "True" THEN <<"from_noise">> ELSE << >>)
        \o (IF cfg.create_ouroboros THEN <<"ouroboros">>
            ELSE IF cfg.input_ext \in SUPPORTED_VIDEO_FORMATS THEN <<"video">>
            ELSE <<"static">>)

\* Lines 431-446: the if / elif chain; the modes entered, in order.
ModesEntered(cfg) ==
    IF cfg.create_from_noise = "True" THEN <<"from_noise">>
    ELSE IF cfg.create_ouroboros THEN <<"ouroboros">>
    ELSE IF cfg.input_ext \in SUPPORTED_VIDEO_FORMATS THEN <<"video">>
    ELSE <<"static">>

Dispatch ==
    /\ pc = "dispatch"
    /\ dispatched' = dispatched \o ModesEntered(config)
    /\ pc' = Head(ModesEntered(config))
    /\ UNCHANGED <<exc, config, ctx, net, modeVars, dreamVars, logVars, fileVars, diskVars>>

\* def deep_dream_static_image(model, config, img)
DreamParameters == <<"model", "config", "img">>

\* Python's binding of a call's arguments: every parameter needs a positional or a
\* keyword argument (no parameter has a default), else the call raises TypeError.
CallBinds(params, positional, keywords) ==
    /\ positional <= Len(params)
    /\ \A i \in 1..Len(params) : i <= positional \/ params[i] \in keywords

Raise(e) ==
    /\ exc' = e
    /\ pc' = "raised"

\* Line 444: deep_dream_static_image(config, img=None).  The call gives no config
\* (its first argument binds to model), so it raises; lines 445-446 are not reached.
Static_Call ==
    /\ pc = "static"
    /\ ~CallBinds(DreamParameters, 1, {"img"})
    /\ Raise("TypeError")
    /\ UNCHANGED <<config, ctx, net, dispatched, modeVars, dreamVars, logVars, fileVars,
                   diskVars>>

\* ------------------------------------------------ deep_dream_video_ouroboros
\* Lines 128-137: the input must be an image; the first frame is the loaded image,
\* or None with use_noise.
Ouroboros_Start ==
    /\ pc = "ouroboros"
    /\ IF config.input_ext \in SUPPORTED_IMAGE_FORMATS
       THEN /\ frame' = IF config.use_noise THEN NoneImg
                        ELSE load_image(InputFileImage, config.img_dimensions)
            /\ frame_id' = 0
            /\ pc' = "ouroboros_loop"
            /\ UNCHANGED exc
       ELSE /\ Raise("AssertionError")
            /\ UNCHANGED <<frame, frame_id>>
    /\ UNCHANGED <<config, ctx, net, dispatched, last_img, dreamed_frame, tmp_input,
                   dreamVars, logVars, fileVars, diskVars>>

\* Lines 139-142: deep_dream_static_image(config, frame) gives no img (config binds
\* to model and frame to config), so the first iteration raises; lines 143-148 are
\* not reached.
Ouroboros_Call ==
    /\ pc = "ouroboros_loop"
    /\ frame_id < config.ouroboros_length
    /\ ~CallBinds(DreamParameters, 2, {})
    /\ Raise("TypeError")
    /\ UNCHANGED <<config, ctx, net, dispatched, modeVars, dreamVars, logVars, fileVars,
                   diskVars>>

\* sorted(glob(dump_dir + '/*.jpg')): the files saved in that directory, in the
\* order of their names, each with the run that wrote it.
FramesIn(dir) ==
    LET RECURSIVE sorted(_)
        sorted(left) ==
            IF left = {} THEN << >>
            ELSE LET i == CHOOSE i \in left : \A j \in left : saved[i].name <= saved[j].name
                 IN  <<[name |-> saved[i].name, run |-> saved[i].run]>> \o sorted(left \ {i})
    IN  sorted({ i \in 1..Len(saved) : saved[i].dir = dir })

\* create_video_from_intermediate_results: a video of every .jpg in dump_dir.
create_video_from_intermediate_results(cfg) ==
    Append(videos, [run |-> run, frames |-> FramesIn(cfg.dump_dir)])

\* Lines 150-152, with no iteration (ouroboros_length = 0): frame.shape, then the
\* video.  frame is None with use_noise, and None has no shape.
Ouroboros_Assemble ==
    /\ pc = "ouroboros_loop"
    /\ frame_id >= config.ouroboros_length
    /\ IF IsNone(frame)
       THEN /\ Raise("AttributeError")
            /\ UNCHANGED <<config, videos>>
       ELSE /\ config' = [config EXCEPT !.img_dimensions = TupleDims(<<frame.h, frame.w, 3>>)]
            /\ videos' = create_video_from_intermediate_results(config')
            /\ pc' = "done"
            /\ UNCHANGED exc
    /\ UNCHANGED <<ctx, net, dispatched, modeVars, dreamVars, logVars, saved, diskVars>>

\* ------------------------------------------------------------ deep_dream_video
\* os.path.join(OUT_VIDEOS_PATH, 'tmp_input') and os.path.join(OUT_VIDEOS_PATH, 'tmp_out')
tmp_input_dir == "out-videos/tmp_input"

tmp_output_dir == "out-videos/tmp_out"

\* os.makedirs(d, exist_ok=True)
makedirs(existing, d) == existing \cup {d}

\* shutil.rmtree(d)
rmtree_NotRemoved(existing, d) == existing

rmtree(existing, d) == existing \ {d}

\* video_utils.extract_frames(video_path, tmp_input_dir): ffmpeg writes the n frames
\* of the input under frame_<number>.jpg from 1 on, over a file of that name; a file
\* with a higher number stays as it is.
extract_frames(n) ==
    LET m == IF n > Len(tmp_input) THEN n ELSE Len(tmp_input)
    IN  [k \in 1..m |-> IF k <= n THEN run ELSE tmp_input[k]]

\* Lines 156-167: the two directories, the frames of the video (extract_frames
\* raises when ffmpeg is missing), last_img = None.
Video_Start ==
    /\ pc = "video"
    /\ \E ffmpeg \in BOOLEAN, n \in 0..MaxVideoFrames :
          IF ffmpeg
          THEN /\ config' = [config EXCEPT !.dump_dir = tmp_output_dir]
               /\ tmp_input' = extract_frames(n)
               /\ last_img' = NoneImg
               /\ frame_id' = 0
               /\ pc' = "video_loop"
               /\ UNCHANGED exc
          ELSE /\ n = 0
               /\ config' = [config EXCEPT !.dump_dir = tmp_output_dir]
               /\ Raise("Exception")
               /\ UNCHANGED <<tmp_input, last_img, frame_id>>
    /\ dirs' = makedirs(makedirs(dirs, tmp_input_dir), tmp_output_dir)
    /\ UNCHANGED <<ctx, net, dispatched, frame, dreamed_frame, dreamVars, logVars, fileVars,
                   run>>

\* Lines 168-186: load the frame, blend it with last_img (None on the first frame),
\* and call deep_dream_static_image(config, frame): the call gives no img and
\* raises on the first frame; lines 197-199 are not reached.
Video_Call ==
    /\ pc = "video_loop"
    /\ frame_id < Len(tmp_input)
    /\ LET loaded == load_image(InputFileImage, config.img_dimensions)
       IN  frame' = IF config.blend # << >> /\ ~IsNone(last_img)
                    THEN linear_blend(last_img, loaded, config.blend)
                    ELSE loaded
    /\ ~CallBinds(DreamParameters, 2, {})
    /\ Raise("TypeError")
    /\ UNCHANGED <<config, ctx, net, dispatched, last_img, dreamed_frame, frame_id,
                   tmp_input, dreamVars, logVars, fileVars, diskVars>>

\* Line 201 with no frame extracted: frame was never assigned.
Video_Assemble ==
    /\ pc = "video_loop"
    /\ frame_id >= Len(tmp_input)
    /\ Raise("UnboundLocalError")
    /\ UNCHANGED <<config, ctx, net, dispatched, modeVars, dreamVars, logVars, fileVars,
                   diskVars>>

\* ------------------------------------------------ deep_dream_video_from_noise
\* np.random.rand(720, 1280, 3) and cv.resize(frame, (1280, 720)), scaled down.
NOISE_HEIGHT == 2

NOISE_WIDTH == 3

\* utils.fetch_and_prepare_model(config['model_name'], config['pretrained_weights'], DEVICE)
fetch_and_prepare_model(cfg) == SupportedModels[cfg.model_name]

\* rotate_max_area(frame, 0.25, (5, 5)): the largest axis-aligned window of the
\* frame rotated by a quarter of a degree, moved by the shift: a window smaller
\* than the frame and off its centre (at this scale: without the first column).
rotate_max_area(image) == Crop(image, 0, 1, image.h, image.w - 1)

\* utils.save_and_maybe_display_image(config, img, name_modifier): asserts that img
\* is an array, then writes it to dump_dir under the number given, over a file of
\* that name.
CanSave(image) == ~IsNone(image)

\* With a name that no earlier file has: nothing is written over.
save_and_maybe_display_image_NoOverwrite(cfg, image, name_modifier) ==
    Append(saved, [dir |-> cfg.dump_dir, name |-> name_modifier, run |-> run])

save_and_maybe_display_image(cfg, image, name_modifier) ==
    LET file == [dir |-> cfg.dump_dir, name |-> name_modifier, run |-> run]
        old == { i \in 1..Len(saved) : saved[i].dir = file.dir /\ saved[i].name = file.name }
    IN  IF old = {} THEN Append(saved, file)
        ELSE [i \in 1..Len(saved) |-> IF i \in old THEN file ELSE saved[i]]

\* Lines 308-321: the directories, the frames of the input (extract_frames raises
\* when ffmpeg is missing), the model, last_img = None and the first noise frame.
Noise_Start ==
    /\ pc = "from_noise"
    /\ \E ffmpeg \in BOOLEAN :
          IF ffmpeg
          THEN \E n \in 0..MaxVideoFrames, noise \in NoiseImages(NOISE_HEIGHT, NOISE_WIDTH) :
                  /\ config' = [config EXCEPT !.dump_dir = tmp_output_dir]
                  /\ tmp_input' = extract_frames(n)
                  /\ model' = fetch_and_prepare_model(config)
                  /\ last_img' = NoneImg
                  /\ frame' = noise
                  /\ frame_id' = 0
                  /\ pc' = "from_noise_loop"
                  /\ UNCHANGED exc
          ELSE /\ config' = [config EXCEPT !.dump_dir = tmp_output_dir]
               /\ Raise("Exception")
               /\ UNCHANGED <<tmp_input, model, last_img, frame, frame_id>>
    /\ dirs' = makedirs(makedirs(dirs, tmp_input_dir), tmp_output_dir)
    /\ UNCHANGED <<ctx, net, dispatched, dreamed_frame, img, base_shape, pyramid_level,
                   new_shape, input_tensor, iteration, shift, layer_ids_to_use, result, ret,
                   logVars, fileVars, run>>

\* Lines 322-333: rotate and crop the frame, resize it back, and call
\* deep_dream_static_image(model, config, frame).
Noise_Call ==
    /\ pc = "from_noise_loop"
    /\ frame_id < MaxNoiseFrames
    /\ CallBinds(DreamParameters, 3, {})
    /\ frame' = cv_resize(rotate_max_area(frame), NOISE_HEIGHT, NOISE_WIDTH)
    /\ img' = frame'
    /\ handed' = frame'
    /\ ga_steps' = 0
    /\ level_log' = << >>
    /\ ret' = "from_noise_return"
    /\ pc' = "dd_layers"
    /\ UNCHANGED <<mainVars, last_img, dreamed_frame, frame_id, tmp_input, model, base_shape,
                   pyramid_level, new_shape, input_tensor, iteration, shift,
                   layer_ids_to_use, result, level_out, fileVars, diskVars>>

\* Lines 333-351: keep the result, blend it into frame when there is a last_img,
\* save it under the frame's number.
Noise_Return ==
    /\ pc = "from_noise_return"
    /\ dreamed_frame' = result
    /\ frame' = IF config.blend # << >> /\ ~IsNone(last_img)
                THEN linear_blend(last_img, result, config.blend)
                ELSE frame
    /\ last_img' = result
    /\ IF CanSave(result)
       THEN /\ saved' = save_and_maybe_display_image(config, result, frame_id)
            /\ frame_id' = frame_id + 1
            /\ pc' = "from_noise_loop"
            /\ UNCHANGED exc
       ELSE /\ Raise("AssertionError")
            /\ UNCHANGED <<saved, frame_id>>
    /\ UNCHANGED <<config, ctx, net, dispatched, tmp_input, dreamVars, logVars, videos,
                   diskVars>>

\* Lines 353-354: the video of the frames in tmp_out.
Noise_Assemble ==
    /\ pc = "from_noise_loop"
    /\ frame_id >= MaxNoiseFrames
    /\ config' = [config EXCEPT !.img_dimensions = TupleDims(<<frame.h, frame.w, 3>>)]
    /\ videos' = create_video_from_intermediate_results(config')
    /\ pc' = "from_noise_remove"
    /\ UNCHANGED <<exc, ctx, net, dispatched, modeVars, dreamVars, logVars, saved, diskVars>>

\* Lines 356-357: tmp_input is removed with the frames in it.
Noise_Remove ==
    /\ pc = "from_noise_remove"
    /\ dirs' = rmtree(dirs, tmp_input_dir)
    /\ tmp_input' = IF tmp_input_dir \in dirs' THEN tmp_input ELSE << >>
    /\ pc' = "done"
    /\ UNCHANGED <<mainVars, frame, last_img, dreamed_frame, frame_id, dreamVars, logVars,
                   fileVars, run>>

\* --------------------------------------------------------- the specifications
LayerChoices == { <<"logits_per_image">>, <<"relu3_3", "relu4_1">> }

\* With a list that names a layer of each model: known in part to both.
DreamLayerChoices == LayerChoices \cup { <<"relu3_3", "logits_per_image">> }

DimensionChoices ==
    { NoneDims, [kind |-> "list", val |-> <<2, 2>>], [kind |-> "list", val |-> <<3>>],
      [kind |-> "list", val |-> <<2, 3>>] }

\* The parsed command lines (lines 365-405).  The loop parameters take one value
\* here; DreamSpec varies them.
AllArguments ==
    [create_from_noise : {"None", "True", "False"},
     create_ouroboros : BOOLEAN,
     input_ext : {"jpg", "mp4"},
     use_noise : BOOLEAN,
     blend : { << >>, <<1, 2>> },
     layers_to_use : LayerChoices,
     model_name : ModelNames,
     pretrained_weights : {CLIP_WEIGHTS, IMAGENET_WEIGHTS},
     img_dimensions : DimensionChoices,
     pyramid_size : {1},
     pyramid_ratio : { <<9, 5>> },
     num_gradient_ascent_iterations : {1},
     lr : { <<1, 1>> },
     spatial_shift_size : {1},
     smoothing_coefficient : { <<1, 2>> },
     ouroboros_length : 0..MaxOuroboros,
     dump_dir : {""}]

\* deep_dream_video_from_noise reads neither use_noise, ouroboros_length nor the
\* weights' name, and of img_dimensions only whether the model's resolution replaced
\* it: with create_from_noise = "True" these take fewer values.
Arguments ==
    { c \in AllArguments :
        c.create_from_noise = "True" =>
            /\ ~c.use_noise
            /\ c.ouroboros_length = 0
            /\ c.pretrained_weights = CLIP_WEIGHTS
            /\ c.img_dimensions.val \in { << >>, <<2, 3>> } }

Init ==
    /\ pc = "configure"
    /\ exc = "none"
    /\ config \in Arguments
    /\ ctx = "unset"
    /\ net \in (IF config.create_from_noise = "True" THEN {"dead", "live"} ELSE {"live"})
    /\ dispatched = << >>
    /\ frame = NoneImg
    /\ last_img = NoneImg
    /\ dreamed_frame = NoneImg
    /\ frame_id = 0
    /\ tmp_input = << >>
    /\ model = [name |-> "", cls |-> "", layer_names |-> << >>]
    /\ img = NoneImg
    /\ base_shape = <<0, 0>>
    /\ pyramid_level = 0
    /\ new_shape = <<0, 0>>
    /\ input_tensor = NoTensor
    /\ iteration = 0
    /\ shift = <<0, 0>>
    /\ layer_ids_to_use = << >>
    /\ result = NoneImg
    /\ ret = ""
    /\ ga_steps = 0
    /\ level_log = << >>
    /\ level_out = NoneImg
    /\ handed = NoneImg
    /\ saved = << >>
    /\ videos = << >>
    /\ run = 1
    /\ dirs = {}

Next ==
    \/ Configure
    \/ Dispatch
    \/ Static_Call
    \/ Ouroboros_Start
    \/ Ouroboros_Call
    \/ Ouroboros_Assemble
    \/ Video_Start
    \/ Video_Call
    \/ Video_Assemble
    \/ Noise_Start
    \/ Noise_Call
    \/ Noise_Return
    \/ Noise_Assemble
    \/ Noise_Remove
    \/ DD_Layers
    \/ DD_Load
    \/ DD_Level
    \/ DD_Shift
    \/ DD_GradientAscent
    \/ DD_Undo
    \/ DD_LevelEnd
    \/ DD_Finish

Spec == Init /\ [][Next]_vars

\* The program run again and again: a run that is over (completed or ended by an
\* exception) is followed by a new process with a new command line; what the runs
\* before it left on disk is what it finds there.
RunArguments ==
    { c \in Arguments :
        /\ c.create_from_noise = "True" \/ c.input_ext \in SUPPORTED_VIDEO_FORMATS
        /\ c.create_from_noise \in {"True", "None"}
        /\ ~c.create_ouroboros
        /\ ~c.use_noise
        /\ c.ouroboros_length = 0
        /\ c.img_dimensions = NoneDims
        /\ c.pretrained_weights = CLIP_WEIGHTS
        /\ c.model_name = "VGG16_EXPERIMENTAL" }

RunsInit ==
    /\ Init
    /\ config \in RunArguments
    /\ net = "live"

NextRun ==
    /\ pc \in {"done", "raised"}
    /\ run < MaxRuns
    /\ run' = run + 1
    /\ pc' = "configure"
    /\ exc' = "none"
    /\ config' \in RunArguments
    /\ ctx' = "unset"
    /\ net' = "live"
    /\ dispatched' = << >>
    /\ frame' = NoneImg
    /\ last_img' = NoneImg
    /\ dreamed_frame' = NoneImg
    /\ frame_id' = 0
    /\ model' = [name |-> "", cls |-> "", layer_names |-> << >>]
    /\ img' = NoneImg
    /\ base_shape' = <<0, 0>>
    /\ pyramid_level' = 0
    /\ new_shape' = <<0, 0>>
    /\ input_tensor' = NoTensor
    /\ iteration' = 0
    /\ shift' = <<0, 0>>
    /\ layer_ids_to_use' = << >>
    /\ result' = NoneImg
    /\ ret' = ""
    /\ ga_steps' = 0
    /\ level_log' = << >>
    /\ level_out' = NoneImg
    /\ handed' = NoneImg
    /\ UNCHANGED <<tmp_input, saved, videos, dirs>>

RunsNext ==
    \/ NextRun
    \/ Configure
    \/ Dispatch
    \/ Video_Start
    \/ Video_Call
    \/ Video_Assemble
    \/ Noise_Start
    \/ Noise_Call
    \/ Noise_Return
    \/ Noise_Assemble
    \/ Noise_Remove
    \/ DD_Layers
    \/ DD_Load
    \/ DD_Level
    \/ DD_Shift
    \/ DD_GradientAscent
    \/ DD_Undo
    \/ DD_LevelEnd
    \/ DD_Finish

RunsSpec == RunsInit /\ [][RunsNext]_vars

\* deep_dream_static_image on its own: a call with every combination of a model, a
\* config and an image (or None: the image is then loaded or drawn).
DreamImages == { NoneImg, [h |-> 2, w |-> 3, px |-> <<4, 0, 2, 1, 3, 0>>] }

DreamArguments ==
    [create_from_noise : {"None"},
     create_ouroboros : {FALSE},
     input_ext : {"jpg"},
     use_noise : BOOLEAN,
     blend : { << >> },
     layers_to_use : DreamLayerChoices,
     model_name : ModelNames,
     pretrained_weights : {CLIP_WEIGHTS, IMAGENET_WEIGHTS},
     img_dimensions : { NoneDims, TupleDims(<<2, 2>>) },
     pyramid_size : 1..MaxPyramid,
     pyramid_ratio : { <<1, 1>>, <<9, 5>> },
     num_gradient_ascent_iterations : 0..MaxIters,
     lr : { <<1, 1>>, <<8, 1>> },
     spatial_shift_size : 0..MaxShift,
     smoothing_coefficient : { <<1, 2>> },
     ouroboros_length : {0},
     dump_dir : {"out-images/model"}]

\* The iterations and the jitter take all their values in a call with an image, the
\* VGG model and its own layers and weights; in the other calls the levels vary and
\* a level takes one iteration with a jitter of up to one pixel.
PlainCall(c) ==
    /\ c.model_name = "VGG16_EXPERIMENTAL"
    /\ c.layers_to_use = <<"relu3_3", "relu4_1">>
    /\ c.pretrained_weights = IMAGENET_WEIGHTS

ShortLoop(c) ==
    /\ c.num_gradient_ascent_iterations = 1
    /\ c.spatial_shift_size = 1

DreamInit ==
    /\ pc = "dd_layers"
    /\ exc = "none"
    /\ config \in DreamArguments
    /\ ctx = (IF config.pretrained_weights = CLIP_WEIGHTS THEN "clip" ELSE "imagenet")
    /\ net \in {"dead", "live"}
    /\ dispatched = << >>
    /\ frame = NoneImg
    /\ last_img = NoneImg
    /\ dreamed_frame = NoneImg
    /\ frame_id = 0
    /\ tmp_input = << >>
    /\ model = fetch_and_prepare_model(config)
    /\ img \in DreamImages
    /\ (~IsNone(img) => ~config.use_noise /\ config.img_dimensions = NoneDims)
    /\ (PlainCall(config) /\ ~IsNone(img)) \/ ShortLoop(config)
    /\ base_shape = <<0, 0>>
    /\ pyramid_level = 0
    /\ new_shape = <<0, 0>>
    /\ input_tensor = NoTensor
    /\ iteration = 0
    /\ shift = <<0, 0>>
    /\ layer_ids_to_use = << >>
    /\ result = NoneImg
    /\ ret = "returned"
    /\ ga_steps = 0
    /\ level_log = << >>
    /\ level_out = NoneImg
    /\ handed = img
    /\ saved = << >>
    /\ videos = << >>
    /\ run = 1
    /\ dirs = {}

DreamSpec == DreamInit /\ [][DreamNext]_vars

\* ------------------------------------------------------------------ claims
RunOver == pc \in {"done", "raised"}

DreamPositions == {"dd_layers", "dd_load", "dd_level", "dd_iter", "dd_ga", "dd_undo"}

ModePositions(m) ==
    CASE m = "from_noise" ->
            {"from_noise", "from_noise_loop", "from_noise_return", "from_noise_remove"}
                \cup DreamPositions
      [] m = "ouroboros" -> {"ouroboros", "ouroboros_loop"}
      [] m = "video" -> {"video", "video_loop"}
      [] OTHER -> {"static"}

\* C1 as stated: once __main__ has dispatched, exactly one mode has been entered and
\* it is the static-image, the video or the ouroboros mode.
C1_OneOfThreeModes ==
    IF pc \in {"configure", "dispatch"} THEN dispatched = << >>
    ELSE /\ Len(dispatched) = 1
         /\ dispatched[1] \in {"static", "video", "ouroboros"}

\* C1 amended: once __main__ has dispatched, exactly one mode has been entered, one
\* of four: from-noise exactly when create_from_noise is the string "True" (whatever
\* the other options say), else ouroboros, video or static image; and the program is
\* at a position of that mode, or over.
C1_OneOfFourModes ==
    IF pc \in {"configure", "dispatch"} THEN dispatched = << >>
    ELSE /\ Len(dispatched) = 1
         /\ dispatched[1] \in {"from_noise", "static", "video", "ouroboros"}
         /\ dispatched[1] = "from_noise" <=> config.create_from_noise = "True"
         /\ dispatched[1] = "ouroboros" =>  config.create_ouroboros
         /\ dispatched[1] = "video" =>
                ~config.create_ouroboros /\ config.input_ext \in SUPPORTED_VIDEO_FORMATS
         /\ dispatched[1] = "static" =>
                ~config.create_ouroboros /\ config.input_ext \notin SUPPORTED_VIDEO_FORMATS
         /\ pc \in ModePositions(dispatched[1]) \cup {"done", "raised"}

\* C1's case: from-noise entered although an ouroboros of a video file was asked for.
C1_Witness ==
    /\ dispatched = <<"from_noise">>
    /\ pc = "from_noise_loop"
    /\ config.create_ouroboros
    /\ config.input_ext = "mp4"

\* C2: after a call of gradient_ascent every value of the tensor lies between
\* LOWER_IMAGE_BOUND and UPPER_IMAGE_BOUND.
C2_UpdateBounded ==
    pc = "dd_undo" =>
        \A i \in 1..Len(input_tensor.px) :
            /\ ~IsNaN(input_tensor.px[i])
            /\ LOWER_IMAGE_BOUND(ctx) <= input_tensor.px[i]
            /\ input_tensor.px[i] <= UPPER_IMAGE_BOUND(ctx)

\* C3: every iteration of the ouroboros loop dreams the loop's frame: the step from
\* the head of the loop, with an iteration left, enters deep_dream_static_image
\* with that frame (the loaded image or None for noise at first, the transformed
\* output afterwards) and leaves config alone.
C3_SelfFeeding ==
    [][(pc = "ouroboros_loop" /\ frame_id < config.ouroboros_length)
          => (pc' = "dd_layers" /\ handed' = frame /\ img' = frame /\ config' = config)]_vars

\* C4: an ouroboros run on an image ends without an exception, with exactly
\* ouroboros_length frames saved under 0, 1, ... in that order, and one video.
C4_OuroborosSavesAll ==
    (dispatched = <<"ouroboros">> /\ config.input_ext \in SUPPORTED_IMAGE_FORMATS /\ RunOver)
        => /\ exc = "none"
           /\ Len(saved) = config.ouroboros_length
           /\ \A k \in 1..Len(saved) : saved[k].name = k - 1
           /\ Len(videos) = 1

\* C5: every extracted frame is dreamed: the step from the head of the video loop,
\* with a frame left, enters deep_dream_static_image with that frame - raw when it
\* is the first or blend is None, else blended with last_img.
C5_EveryFrameDreamed ==
    [][(pc = "video_loop" /\ frame_id < Len(tmp_input))
          => LET raw == load_image(InputFileImage, config.img_dimensions)
             IN  /\ pc' = "dd_layers"
                 /\ handed' = (IF frame_id = 0 \/ config.blend = << >> THEN raw
                               ELSE linear_blend(last_img, raw, config.blend))]_vars

\* C6: a static-image run with known layer names ends without an exception after
\* exactly pyramid_size * num_gradient_ascent_iterations gradient-ascent steps, the
\* image saved once.
C6_StaticRunSteps ==
    (/\ dispatched = <<"static">>
     /\ \A k \in 1..Len(config.layers_to_use) :
           IndexOf(SupportedModels[config.model_name].layer_names, config.layers_to_use[k]) # 0
     /\ RunOver)
        => /\ exc = "none"
           /\ ga_steps = config.pyramid_size * config.num_gradient_ascent_iterations
           /\ Len(saved) = 1

AllLayersNamed ==
    \A k \in 1..Len(config.layers_to_use) :
        \E j \in 1..Len(model.layer_names) : model.layer_names[j] = config.layers_to_use[k]

\* The tensor's values without the padding of a fixed-resolution model.
Unpadded(t, shape) == Crop(pytorch_output_adapter(t), 0, 0, shape[1], shape[2])

RolledFrom(h, w, dh, dw, i) ==
    Idx(w, ((Row(w, i) - 1 - dh) % h) + 1, ((Col(w, i) - 1 - dw) % w) + 1)

\* C8: both offsets of the jitter lie in -spatial_shift_size .. spatial_shift_size;
\* while the tensor is shifted every value is where the roll by the offsets puts it;
\* between iterations every value is at the position it had when the level began;
\* and each iteration takes exactly one gradient step.
C8_JitterUndone ==
    /\ pc \in {"dd_iter", "dd_level"} /\ input_tensor # NoTensor =>
          /\ input_tensor.at = Identity(input_tensor.h * input_tensor.w)
          /\ shift = <<0, 0>>
    /\ pc \in {"dd_ga", "dd_undo"} =>
          /\ shift[1] \in (0 - config.spatial_shift_size)..config.spatial_shift_size
          /\ shift[2] \in (0 - config.spatial_shift_size)..config.spatial_shift_size
          /\ \A i \in 1..Len(input_tensor.at) :
                input_tensor.at[i] = RolledFrom(input_tensor.h, input_tensor.w, shift[1], shift[2], i)
    /\ pc \in {"dd_iter", "dd_ga"} =>
          ga_steps = pyramid_level * config.num_gradient_ascent_iterations + iteration
    /\ pc = "dd_undo" =>
          ga_steps = pyramid_level * config.num_gradient_ascent_iterations + iteration + 1

\* C8's case: two iterations of a level done with a jitter of up to one pixel, the
\* values changed by the gradient steps and every one back in its place.
C8_Witness ==
    /\ pc = "dd_iter"
    /\ iteration = 2
    /\ config.spatial_shift_size = 1
    /\ ~AnyNaN(input_tensor.px)
    /\ input_tensor.px # img.px
    /\ input_tensor.at = Identity(input_tensor.h * input_tensor.w)

SomeLayerUnknown ==
    \E k \in 1..Len(config.layers_to_use) :
        \A j \in 1..Len(model.layer_names) : model.layer_names[j] # config.layers_to_use[k]

\* C9: with a name in layers_to_use that the model does not have, the call goes
\* from its first line straight to its return, returns None, raises nothing, leaves
\* the image it was given as it is, loads none and takes no gradient step.
C9_UnknownLayerReturnsNone ==
    SomeLayerUnknown =>
        /\ pc \in {"dd_layers", "returned"}
        /\ result = NoneImg
        /\ exc = "none"
        /\ img = handed
        /\ base_shape = <<0, 0>>
        /\ input_tensor = NoTensor
        /\ level_log = << >>
        /\ ga_steps = 0

\* C9's case: a call given an image and a list of names known only in part has
\* returned.
C9_Witness ==
    /\ pc = "returned"
    /\ SomeLayerUnknown
    /\ ~AllLayersNamed
    /\ \E k \in 1..Len(config.layers_to_use) :
          \E j \in 1..Len(model.layer_names) : model.layer_names[j] = config.layers_to_use[k]
    /\ ~IsNone(img)

\* C10: with a fixed-resolution model, img_dimensions is the model's resolution once
\* the configuration is done, and every image handed to deep_dream_static_image has
\* that resolution.
C10_FixedResolution ==
    config.model_name \in DOMAIN FixedImageResolutions =>
        /\ pc = "dispatch" => config.img_dimensions = FixedImageResolutions[config.model_name]
        /\ pc \in DreamPositions /\ ~IsNone(handed) =>
              Shape(handed) = FixedImageResolutions[config.model_name].val

\* The video assembled by this run, if there is one.
VideoOfRun(r) == { v \in 1..Len(videos) : videos[v].run = r }

\* The frames this run has saved are in tmp_out, one file for each, under 0, 1, ...
FramesKept ==
    \A k \in 0..(frame_id - 1) :
        \E i \in 1..Len(saved) :
            saved[i] = [dir |-> tmp_output_dir, name |-> k, run |-> run]

VideoModeCompleted == pc = "done" /\ dispatched \in { <<"video">>, <<"from_noise">> }

\* C11: when video mode or from-noise mode has completed, tmp_input is gone with the
\* frames in it, the video of the run has been assembled, and tmp_out and the
\* dreamed frames are in place; the step that removes tmp_input is taken with the
\* run's video already assembled and changes neither the videos nor the saved
\* frames; and no step removes tmp_out or a frame saved in it.
C11_TmpInputRemovedLast ==
    /\ [](VideoModeCompleted =>
            /\ tmp_input_dir \notin dirs
            /\ tmp_input = << >>
            /\ VideoOfRun(run) # {}
            /\ tmp_output_dir \in dirs
            /\ FramesKept)
    /\ [][(tmp_input_dir \in dirs /\ tmp_input_dir \notin dirs') =>
              /\ VideoOfRun(run) # {}
              /\ videos' = videos
              /\ saved' = saved]_vars
    /\ [][/\ tmp_output_dir \in dirs => tmp_output_dir \in dirs'
          /\ \A i \in 1..Len(saved) :
                \E j \in 1..Len(saved') :
                    saved'[j].dir = saved[i].dir /\ saved'[j].name = saved[i].name]_vars

\* C11's case: a from-noise run has completed, its frames extracted into tmp_input
\* at the start and its dreamed frames saved.
C11_Witness ==
    /\ VideoModeCompleted
    /\ tmp_input_dir \notin dirs
    /\ Len(saved) = MaxNoiseFrames
    /\ VideoOfRun(run) # {}
    /\ Len(videos[Len(videos)].frames) = MaxNoiseFrames

\* C12: in any sequence of video-mode and from-noise runs, every frame of a video
\* was written by the run that assembled the video, and the video of a run that
\* has assembled one holds one frame for each frame the run processed, under 0, 1,
\* ... in that order.
C12_VideoOfOwnFrames ==
    /\ \A v \in 1..Len(videos) :
          \A k \in 1..Len(videos[v].frames) : videos[v].frames[k].run = videos[v].run
    /\ (pc = "from_noise_remove" \/ VideoModeCompleted) =>
          /\ VideoOfRun(run) # {}
          /\ \A v \in VideoOfRun(run) :
                /\ Len(videos[v].frames) = frame_id
                /\ \A k \in 1..frame_id : videos[v].frames[k].name = k - 1

\* C12's case: a run has assembled its video after an earlier run that left its own
\* dreamed frames in tmp_out and assembled a video of them.
C12_Witness ==
    /\ run > 1
    /\ VideoModeCompleted
    /\ VideoOfRun(run) # {}
    /\ \E r \in 1..(run - 1) :
          \E v \in VideoOfRun(r) : Len(videos[v].frames) = MaxNoiseFrames
    /\ Len(saved) = MaxNoiseFrames

====
